---- MODULE Spec2Model ----
(***************************************************************************)
(* RepoClinic: the checkpointed fan-out/fan-in flow                        *)
(* (src/src/repoclinic/flow/repoclinic_flow.py), its flow state            *)
(* (flow/state.py), the transition log (flow/transition_store.py) and the  *)
(* retry executor (resilience/retry.py).                                   *)
(***************************************************************************)
EXTENDS Integers, Sequences, FiniteSets, TLC

(***************************************************************************)
(* Bounds of the model.                                                    *)
(***************************************************************************)
\* kickoff/resume invocations explored for one run id
MaxInvocations == 2
\* RetryPolicy.max_attempts of the executor the flow is built with
FlowMaxAttempts == 2
\* collaborator calls that raise, over all invocations of the run
MaxFaults == 6

\* stand-alone executor: largest max_attempts, backoff and jitter (in tenths of
\* a second) a policy is drawn from
MaxPolicyAttempts == 3
MaxBackoff == 1
MaxJitter == 1

\* transition store on its own: records inserted
MaxRecords == 3

\* bits of the significand of a confidence value
SignificandBits == 3
\* synthesize_roadmap on its own: findings per branch output of the long
\* inputs, and how many long inputs there are
MaxFindings == 4
MaxSeed == 3

(***************************************************************************)
(* Node ids.                                                               *)
(***************************************************************************)
Branches == {"architecture", "security", "performance"}
Collaborators == {"scanner"} \cup Branches
StatusNodes == Collaborators \cup {"roadmap"}
Methods == {"start"} \cup StatusNodes

\* the run id every invocation of this model uses
RunId == "run-1"

VARIABLES
    state,        \* the in-memory RepoClinicFlowState of the current flow instance
    transitions,  \* rows of table flow_transitions, in rowid order
    snapshots,    \* rows saved by FlowPersistence.save_state, in insertion order
    calls,        \* per collaborator: how many times it has been invoked
    pc,           \* per flow method: waiting / ready / entered / done
    attempt,      \* per collaborator: attempts that raised in this invocation's retry_executor.run
    phase,        \* idle / running / returned / raised / crashed
    invocations,  \* kickoff/resume invocations so far
    invStart,     \* Len(transitions) when the current invocation began
    callsStart,   \* calls when the current invocation began
    faults,       \* how much of the fault budget (raising collaborator calls) is spent
    appended,     \* node ids ever appended to completed_nodes for this run
    entry,        \* the runner entry point of the current invocation: kickoff / resume
    \* a RetryExecutor.run call on its own
    policy,          \* RetryPolicy: max_attempts, backoff_seconds, jitter_seconds
    timeout_seconds, \* <<>> for None, else <<seconds>>
    rpc,             \* idle / attempting / waiting / joining / returned / raised
    attempt_no,      \* the loop variable `attempt` of run
    outcomes,        \* per operation call so far, how the operation behaves
    inflight,        \* calls of the operation that are still executing
    slept,           \* the delays passed to sleep_fn, in order
    result,          \* what run returned or raised
    last_error,      \* run's local last_error
    \* a synthesize_roadmap call on its own
    synth_inputs,    \* the three branch outputs passed to the call
    synth_items,     \* the list the call returned
    synth_pc         \* idle / done

flowVars == <<state, transitions, snapshots, calls, pc, attempt, phase, invocations,
              invStart, callsStart, faults, appended, entry>>
retryVars == <<policy, timeout_seconds, rpc, attempt_no, outcomes, inflight, slept,
               result, last_error>>
synthVars == <<synth_inputs, synth_items, synth_pc>>
vars == <<flowVars, retryVars, synthVars>>

(***************************************************************************)
(* Values.                                                                 *)
(***************************************************************************)
NoError == [kind |-> "none", stage |-> "", attempts |-> 0, cause |-> ""]
None == [kind |-> "none"]

\* FlowNodeState (schemas/enums.py)
FlowNodeState == {"pending", "running", "completed", "failed"}

\* RepoClinicFlowState defaults; outputs[n] stands for the field <n>_output
RepoClinicFlowState ==
    [ id |-> "",
      run_id |-> "",
      request_payload |-> FALSE,
      node_id |-> "start",
      state |-> "pending",
      checkpoint_id |-> <<>>,
      resume_token |-> "",
      completed_nodes |-> <<>>,
      branch_statuses |-> [n \in StatusNodes |-> "pending"],
      branch_failures |-> [n \in StatusNodes |-> NoError],
      outputs |-> [n \in StatusNodes |-> None] ]

SeqToSet(s) == {s[i] : i \in 1..Len(s)}

(***************************************************************************)
(* Roadmap synthesis (agents/executor.py).                                 *)
(***************************************************************************)
\* SEVERITY_ORDER.get(severity, 4)
SEVERITY_ORDER(severity) ==
    CASE severity = "Critical" -> 0
      [] severity = "High" -> 1
      [] severity = "Medium" -> 2
      [] severity = "Low" -> 3
      [] OTHER -> 4

\* confidence is a binary floating-point number in [0, 1].  It is kept as a
\* count of units of 1/ConfidenceOne with a significand of SignificandBits
\* bits (a Python float has 53), so that values near 0 are spaced more finely
\* than values near 1, as they are for Python floats.
ConfidenceOne == 32

\* the largest power of two that is <= x, for x >= 1
RECURSIVE Binade(_)
Binade(x) == IF x < 2 THEN 1 ELSE 2 * Binade(x \div 2)

RECURSIVE Pow2(_)
Pow2(n) == IF n <= 0 THEN 1 ELSE 2 * Pow2(n - 1)

\* the spacing of the representable numbers around x (at least one unit)
Ulp(x) ==
    LET u == Binade(x) \div Pow2(SignificandBits - 1)
    IN IF u < 1 THEN 1 ELSE u

\* x rounded to the nearest representable number, ties to the even significand
RoundToFloat(x) ==
    LET u == Ulp(x)
        lo == (x \div u) * u
        hi == lo + u
    IN IF x = lo THEN x
       ELSE IF x - lo < hi - x THEN lo
       ELSE IF hi - x < x - lo THEN hi
       ELSE IF (lo \div u) % 2 = 0 THEN lo ELSE hi

\* the floating-point subtraction 1 - c, tabulated for every confidence
Complement == [c \in 0..ConfidenceOne |-> RoundToFloat(ConfidenceOne - c)]

\* 1 - item.confidence
OneMinus(confidence) == Complement[confidence]
\* sorted_findings[:10]
RoadmapLimit == 10

\* the sort key (SEVERITY_ORDER[severity], 1 - confidence), compared as tuples
KeyLess(f, g) ==
    \/ SEVERITY_ORDER(f.severity) < SEVERITY_ORDER(g.severity)
    \/ /\ SEVERITY_ORDER(f.severity) = SEVERITY_ORDER(g.severity)
       /\ OneMinus(f.confidence) < OneMinus(g.confidence)

\* the index s[i] gets in sorted(s): after the elements with a smaller key
\* and after the elements with an equal key that come before it in s
SortedIndex(s, i) ==
    Cardinality({j \in 1..Len(s) :
                    \/ KeyLess(s[j], s[i])
                    \/ ~KeyLess(s[i], s[j]) /\ j < i}) + 1

\* Python's sorted(): stable, equal keys keep their input order
Sorted(s) ==
    [k \in 1..Len(s) |-> s[CHOOSE i \in 1..Len(s) : SortedIndex(s, i) = k]]

\* a filter that keeps every finding
Actionable_All(findings) == findings

Actionable(findings) ==
    SelectSeq(findings, LAMBDA f : f.status \in {"confirmed", "suspected"})

RoadmapItem(finding) ==
    LET priority == IF finding.severity \in {"Critical", "High"} THEN "P0"
                    ELSE IF finding.severity = "Medium" THEN "P1" ELSE "P2"
        timeline == IF priority = "P0" THEN "immediate_1_2_days"
                    ELSE IF priority = "P1" THEN "short_term_1_2_weeks"
                    ELSE "medium_term_1_2_months"
    IN [ priority |-> priority,
         risk |-> finding.severity,
         timeline_bucket |-> timeline,
         depends_on |-> <<finding.id>> ]

\* a synthesis that concatenates the branch findings in the order in which the
\* branches reached their terminal transition instead of the fixed order
synthesize_roadmap_CompletionOrder(architecture_output, security_output, performance_output) ==
    LET out == [b \in Branches |->
                   IF b = "architecture" THEN architecture_output
                   ELSE IF b = "security" THEN security_output
                   ELSE performance_output]
        finished(b) ==
            LET at == {i \in 1..Len(transitions) :
                          /\ transitions[i].node_id = b
                          /\ transitions[i].to_state \in {"completed", "failed"}}
            IN IF at = {} THEN 0 ELSE CHOOSE i \in at : \A j \in at : j <= i
        order == CHOOSE o \in [1..3 -> Branches] :
                     /\ \A i, j \in 1..3 : i # j => o[i] # o[j]
                     /\ \A i \in 1..2 : finished(o[i]) <= finished(o[i + 1])
        findings == out[order[1]].findings \o out[order[2]].findings
                      \o out[order[3]].findings
        sorted_findings == Sorted(Actionable(findings))
        top == SubSeq(sorted_findings, 1,
                      IF Len(sorted_findings) < RoadmapLimit
                      THEN Len(sorted_findings) ELSE RoadmapLimit)
    IN [i \in 1..Len(top) |-> RoadmapItem(top[i])]

synthesize_roadmap(architecture_output, security_output, performance_output) ==
    LET findings == architecture_output.findings \o security_output.findings
                      \o performance_output.findings
        sorted_findings == Sorted(Actionable(findings))
        top == SubSeq(sorted_findings, 1,
                      IF Len(sorted_findings) < RoadmapLimit
                      THEN Len(sorted_findings) ELSE RoadmapLimit)
    IN [i \in 1..Len(top) |-> RoadmapItem(top[i])]

\* build_failed_architecture_output / _security_ / _performance_
FailedSeverity(branch) == IF branch = "security" THEN "High" ELSE "Medium"

build_failed_output(branch, reason) ==
    [ kind |-> "placeholder",
      branch |-> branch,
      seq |-> 0,
      reason |-> reason,
      findings |-> << [ id |-> <<branch, "failed", 0>>,
                        category |-> branch,
                        severity |-> FailedSeverity(branch),
                        status |-> "failed",
                        confidence |-> 0 ] >> ]

(***************************************************************************)
(* The collaborators: what the n-th successful call returns.  Each call    *)
(* yields a payload of its own (seq), so a repeated call is observable.    *)
(***************************************************************************)
ScanOutput(n) == [kind |-> "scan", seq |-> n]

BranchSeverity(branch) == IF branch = "security" THEN "High" ELSE "Medium"
BranchStatus(branch) == IF branch = "security" THEN "confirmed" ELSE "suspected"
BranchConfidence(branch) == IF branch = "security" THEN 28 ELSE 24

BranchOutput(branch, n) ==
    [ kind |-> "real",
      branch |-> branch,
      seq |-> n,
      reason |-> NoError,
      findings |-> << [ id |-> <<branch, "finding", n>>,
                        category |-> branch,
                        severity |-> BranchSeverity(branch),
                        status |-> BranchStatus(branch),
                        confidence |-> BranchConfidence(branch) ] >> ]

\* a validation that accepts every payload
ValidBranchPayload_Always(output, branch) == TRUE

\* model_validate of a stored branch payload: an absent payload ({}) is rejected
ValidBranchPayload(output, branch) ==
    /\ output.kind \in {"real", "placeholder"}
    /\ \A i \in 1..Len(output.findings) : output.findings[i].category = branch

(***************************************************************************)
(* Retry executor, as the flow uses it (resilience/retry.py).              *)
(***************************************************************************)
\* the error RetryExecutor.run raises when the attempts are used up
WrappedError(stage_name, max_attempts, cause) ==
    [kind |-> "RuntimeError", stage |-> stage_name, attempts |-> max_attempts,
     cause |-> cause]

\* max_attempts < 1
ConfigError == [kind |-> "ValueError", stage |-> "", attempts |-> 0, cause |-> ""]

StageName(node) == IF node = "scanner" THEN "scanner-stage"
                   ELSE IF node = "architecture" THEN "architecture-branch"
                   ELSE IF node = "security" THEN "security-branch"
                   ELSE "performance-branch"

\* an off-by-one in the break test: one attempt too many
LastAttempt_OffByOne(k, max_attempts) == k > max_attempts

\* RetryExecutor.run, `if attempt >= self.policy.max_attempts: break`
LastAttempt(k, max_attempts) == k >= max_attempts

Max0(x) == IF x < 0 THEN 0 ELSE x

\* an exponent off by one: 2 ** attempt
_backoff_delay_Doubled(pol, attempt_index, jitter) ==
    Max0(pol.backoff_seconds * Pow2(attempt_index) + jitter)

\* RetryExecutor._backoff_delay with the jitter the jitter_fn drew
_backoff_delay(pol, attempt_index, jitter) ==
    LET base_delay == pol.backoff_seconds * Pow2(attempt_index - 1)
    IN Max0(base_delay + jitter)

\* a truthiness test, `if not timeout_seconds`: 0 counts as no timeout
HasTimeout_Truthy(timeout) == timeout # <<>> /\ timeout[1] # 0

\* `if timeout_seconds is None` is false
HasTimeout(timeout) == timeout # <<>>

\* what the operation and the executor produce
Value(k) == [kind |-> "value", attempt |-> k]
OperationError(k) == [kind |-> "OperationError", attempt |-> k]
TimeoutError(k) == [kind |-> "TimeoutError", attempt |-> k]
RetryStage == "retry-test"

(***************************************************************************)
(* RetryExecutor.run on its own, one step per call, wait and handler.      *)
(***************************************************************************)
\* run without its max_attempts check
run_Unchecked ==
    /\ rpc = "idle"
    /\ rpc' = "attempting"
    /\ UNCHANGED <<policy, timeout_seconds, attempt_no, outcomes, inflight, slept,
                   result, last_error, flowVars, synthVars>>

\* run: the max_attempts check and the entry into the loop
run ==
    /\ rpc = "idle"
    /\ IF policy.max_attempts < 1
       THEN rpc' = "raised" /\ result' = ConfigError
       ELSE rpc' = "attempting" /\ result' = result
    /\ UNCHANGED <<policy, timeout_seconds, attempt_no, outcomes, inflight, slept,
                   last_error, flowVars, synthVars>>

\* how a call of the operation behaves: it returns or raises, quickly or slowly
\* (slow: still executing when any timeout expires)
Behaviours == {"ok", "raise", "slow_ok", "slow_raise"}
Returns(behaviour) == behaviour \in {"ok", "slow_ok"}
IsSlow(behaviour) == behaviour \in {"slow_ok", "slow_raise"}

\* _run_once: the operation is called (directly, or submitted to the worker)
_run_once(behaviour) ==
    /\ rpc = "attempting"
    /\ outcomes' = Append(outcomes, behaviour)
    /\ inflight' = inflight \cup {attempt_no}
    /\ rpc' = "waiting"
    /\ UNCHANGED <<policy, timeout_seconds, attempt_no, slept, result, last_error,
                   flowVars, synthVars>>

\* the except branch of run for the error exc of the current attempt
Handle(exc) ==
    /\ last_error' = exc
    /\ IF LastAttempt(attempt_no, policy.max_attempts)
       THEN /\ rpc' = "raised"
            /\ result' = WrappedError(RetryStage, policy.max_attempts, exc)
            /\ UNCHANGED <<attempt_no, slept>>
       ELSE /\ \E jitter \in 0..policy.jitter_seconds :
                 slept' = Append(slept, _backoff_delay(policy, attempt_no, jitter))
            /\ attempt_no' = attempt_no + 1
            /\ rpc' = "attempting"
            /\ UNCHANGED result

\* the operation finishes while run waits for it: within the timeout, or
\* whenever it does if no timeout is set
operation_done ==
    /\ rpc = "waiting"
    /\ ~IsSlow(outcomes[attempt_no]) \/ ~HasTimeout(timeout_seconds)
    /\ inflight' = inflight \ {attempt_no}
    /\ IF Returns(outcomes[attempt_no])
       THEN /\ rpc' = "returned"
            /\ result' = Value(attempt_no)
            /\ UNCHANGED <<attempt_no, slept, last_error>>
       ELSE Handle(OperationError(attempt_no))
    /\ UNCHANGED <<policy, timeout_seconds, outcomes, flowVars, synthVars>>

\* a worker that is not joined: the TimeoutError reaches run while the
\* operation is still executing
future_timeout_Abandon ==
    /\ rpc = "waiting"
    /\ HasTimeout(timeout_seconds)
    /\ IsSlow(outcomes[attempt_no])
    /\ Handle(TimeoutError(attempt_no))
    /\ UNCHANGED <<policy, timeout_seconds, outcomes, inflight, flowVars, synthVars>>

\* future.result(timeout=...) gives up: TimeoutError is raised inside the
\* `with ThreadPoolExecutor(...)` block, whose exit is shutdown(wait=True)
future_timeout ==
    /\ rpc = "waiting"
    /\ HasTimeout(timeout_seconds)
    /\ IsSlow(outcomes[attempt_no])
    /\ rpc' = "joining"
    /\ UNCHANGED <<policy, timeout_seconds, attempt_no, outcomes, inflight, slept,
                   result, last_error, flowVars, synthVars>>

\* the timed-out operation finishes at last (its value or error is dropped), the
\* worker is joined, and the TimeoutError reaches the except branch of run
executor_shutdown ==
    /\ rpc = "joining"
    /\ inflight' = inflight \ {attempt_no}
    /\ Handle(TimeoutError(attempt_no))
    /\ UNCHANGED <<policy, timeout_seconds, outcomes, flowVars, synthVars>>

(***************************************************************************)
(* Flow bookkeeping (RepoClinicFlow).                                      *)
(***************************************************************************)
\* a ledger that is never consulted
_node_completed_Never(st, node_id) == FALSE

_node_completed(st, node_id) == node_id \in SeqToSet(st.completed_nodes)

\* the ledger assigned instead of appended to
MarkState_Assign(st, node_id, to_state) ==
    [st EXCEPT
        !.node_id = node_id,
        !.state = to_state,
        !.checkpoint_id = <<st.run_id, node_id>>,
        !.resume_token = st.id,
        !.completed_nodes = IF to_state = "completed" THEN <<node_id>> ELSE @]

\* a ledger that takes every terminal state, FAILED included
MarkState_AppendAlways(st, node_id, to_state) ==
    [st EXCEPT
        !.node_id = node_id,
        !.state = to_state,
        !.checkpoint_id = <<st.run_id, node_id>>,
        !.resume_token = st.id,
        !.completed_nodes =
            IF to_state \in {"completed", "failed"} /\ node_id \notin SeqToSet(@)
            THEN Append(@, node_id) ELSE @]

\* _mark_node_transition, the in-memory part
MarkState(st, node_id, to_state) ==
    [st EXCEPT
        !.node_id = node_id,
        !.state = to_state,
        !.checkpoint_id = <<st.run_id, node_id>>,
        !.resume_token = st.id,
        !.completed_nodes =
            IF to_state = "completed" /\ node_id \notin SeqToSet(@)
            THEN Append(@, node_id) ELSE @]

\* FlowTransitionStore.record_transition as _mark_node_transition calls it
TransitionRecord(st, node_id, to_state) ==
    [ run_id |-> IF st.run_id # "" THEN st.run_id ELSE st.id,
      node_id |-> node_id,
      from_state |-> st.state,
      to_state |-> to_state ]

\* FlowTransitionStore.record_transition called on its own, for any run id
record_transition(run_id, node_id, from_state, to_state) ==
    /\ Len(transitions) < MaxRecords
    /\ transitions' = Append(transitions,
                             [ run_id |-> run_id, node_id |-> node_id,
                               from_state |-> from_state, to_state |-> to_state ])
    /\ UNCHANGED <<state, snapshots, calls, pc, attempt, phase, invocations, invStart,
                   callsStart, faults, appended, entry, retryVars, synthVars>>

\* a SELECT without its WHERE run_id = ? clause
list_transitions_Unfiltered(run_id) == transitions

\* FlowTransitionStore.list_transitions
list_transitions(run_id) ==
    SelectSeq(transitions, LAMBDA r : r.run_id = run_id)

\* the row FlowPersistence.save_state inserts
SnapshotRow(st, node_id) ==
    [flow_uuid |-> st.id, method_name |-> node_id, state_data |-> st]

\* FlowPersistence.load_state: the latest row of the flow uuid, if any
HasSnapshot(flow_uuid) == \E i \in 1..Len(snapshots) : snapshots[i].flow_uuid = flow_uuid
load_state(flow_uuid) ==
    LET rows == SelectSeq(snapshots, LAMBDA r : r.flow_uuid = flow_uuid)
    IN rows[Len(rows)].state_data

\* a process crash inside _mark_node_transition, named by the last of its
\* steps that ran (ledger append, transition insert, snapshot save)
NoCrash == "none"
CrashPoints == {"after_ledger_append", "after_transition_insert", "after_snapshot_save"}
\* a flow built without persistence: no snapshot is ever saved
Saved_Never(crash) == FALSE

Inserted(crash) == crash # "after_ledger_append"
Saved(crash) == crash \in {NoCrash, "after_snapshot_save"}

\* _mark_node_transition on the state st the node has prepared
_mark_node_transition(st, node_id, to_state, crash) ==
    LET new == MarkState(st, node_id, to_state) IN
    /\ state' = new
    /\ appended' = appended \cup (SeqToSet(new.completed_nodes) \ SeqToSet(st.completed_nodes))
    /\ transitions' = IF Inserted(crash)
                      THEN Append(transitions, TransitionRecord(st, node_id, to_state))
                      ELSE transitions
    /\ snapshots' = IF Saved(crash)
                    THEN Append(snapshots, SnapshotRow(new, node_id))
                    ELSE snapshots

\* where the flow goes after a node's step, unless the process died in it
Proceed(crash, nextPc, nextPhase) ==
    IF crash = NoCrash
    THEN pc' = nextPc /\ phase' = nextPhase
    ELSE pc' = pc /\ phase' = "crashed"

(***************************************************************************)
(* Runner entry points (RepoClinicFlowRunner) and Flow.kickoff: a fresh    *)
(* flow instance restores the latest snapshot of the id it is given, then  *)
(* takes the other inputs.                                                 *)
(***************************************************************************)
Restored(flow_uuid) ==
    IF HasSnapshot(flow_uuid) THEN load_state(flow_uuid)
    ELSE [RepoClinicFlowState EXCEPT !.id = flow_uuid]

FreshPc == [m \in Methods |-> "waiting"]

\* an invocation that inherits the attempts the previous one used up
Begin_KeepAttempts(st) ==
    /\ phase \in {"idle", "returned", "raised", "crashed"}
    /\ invocations < MaxInvocations
    /\ state' = st
    /\ pc' = FreshPc
    /\ attempt' = attempt
    /\ phase' = "running"
    /\ invocations' = invocations + 1
    /\ invStart' = Len(transitions)
    /\ callsStart' = calls
    /\ UNCHANGED <<transitions, snapshots, calls, faults, appended, retryVars, synthVars>>

Begin(st) ==
    /\ phase \in {"idle", "returned", "raised", "crashed"}
    /\ invocations < MaxInvocations
    /\ state' = st
    /\ pc' = FreshPc
    /\ attempt' = [c \in Collaborators |-> 0]
    /\ phase' = "running"
    /\ invocations' = invocations + 1
    /\ invStart' = Len(transitions)
    /\ callsStart' = calls
    /\ UNCHANGED <<transitions, snapshots, calls, faults, appended, retryVars, synthVars>>

\* RepoClinicFlowRunner.kickoff: inputs id, run_id, request_payload
kickoff ==
    /\ Begin([Restored(RunId) EXCEPT !.run_id = RunId, !.request_payload = TRUE])
    /\ entry' = "kickoff"

\* a resume that passes a request payload of its own
resume_WithPayload ==
    /\ Begin([Restored(RunId) EXCEPT !.run_id = RunId, !.request_payload = TRUE])
    /\ entry' = "resume"

\* RepoClinicFlowRunner.resume: inputs id only
resume ==
    /\ Begin(Restored(RunId))
    /\ entry' = "resume"

(***************************************************************************)
(* The nodes.                                                              *)
(***************************************************************************)
\* a start node that accepts an empty payload
PayloadMissing_Never(st) == FALSE

\* `if not self.state.request_payload`
PayloadMissing(st) == ~st.request_payload

validate_request_and_state(crash) ==
    /\ phase = "running"
    /\ pc["start"] = "waiting"
    /\ IF _node_completed(state, "start")
       THEN /\ crash = NoCrash
            /\ pc' = [pc EXCEPT !["start"] = "done"]
            /\ UNCHANGED <<state, transitions, snapshots, appended, phase>>
       ELSE IF PayloadMissing(state)
       THEN /\ crash = NoCrash
            /\ phase' = "raised"
            /\ UNCHANGED <<state, transitions, snapshots, appended, pc>>
       ELSE /\ _mark_node_transition(
                   [state EXCEPT !.run_id = RunId, !.id = RunId],
                   "start", "completed", crash)
            /\ Proceed(crash, [pc EXCEPT !["start"] = "done"], phase)
    /\ UNCHANGED <<calls, attempt, invocations, invStart, callsStart, faults, entry, retryVars, synthVars>>

\* whether the collaborator call of this attempt returns (ok) or raises
Outcome(ok) ==
    IF ok THEN faults' = faults
    ELSE faults < MaxFaults /\ faults' = faults + 1

\* run_scanner_stage up to the call of the retry executor
run_scanner_stage(crash) ==
    /\ phase = "running"
    /\ pc["start"] = "done"
    /\ pc["scanner"] = "waiting"
    /\ IF _node_completed(state, "scanner")
       THEN /\ crash = NoCrash
            /\ pc' = [pc EXCEPT !["scanner"] = "done"]
            /\ UNCHANGED <<state, transitions, snapshots, appended, phase>>
       ELSE /\ _mark_node_transition(state, "scanner", "running", crash)
            /\ Proceed(crash, [pc EXCEPT !["scanner"] = "entered"], phase)
    /\ UNCHANGED <<calls, attempt, invocations, invStart, callsStart, faults, entry, retryVars, synthVars>>

\* one attempt of retry_executor.run(scanner_pipeline.run) and, when it settles
\* the call, the rest of run_scanner_stage
scanner_attempt(ok, crash) ==
    /\ phase = "running"
    /\ pc["scanner"] = "entered"
    /\ calls' = [calls EXCEPT !["scanner"] = @ + 1]
    /\ Outcome(ok)
    /\ IF ok
       THEN /\ _mark_node_transition(
                   [state EXCEPT !.outputs["scanner"] = ScanOutput(calls'["scanner"]),
                                 !.branch_statuses["scanner"] = "completed"],
                   "scanner", "completed", crash)
            /\ Proceed(crash, [pc EXCEPT !["scanner"] = "done"], phase)
            /\ UNCHANGED attempt
       ELSE IF LastAttempt(attempt["scanner"] + 1, FlowMaxAttempts)
       THEN /\ _mark_node_transition(
                   [state EXCEPT !.branch_statuses["scanner"] = "failed",
                                 !.branch_failures["scanner"] =
                                     WrappedError(StageName("scanner"), FlowMaxAttempts,
                                                  "scan raised")],
                   "scanner", "failed", crash)
            /\ Proceed(crash, pc, "raised")
            /\ attempt' = [attempt EXCEPT !["scanner"] = @ + 1]
       ELSE /\ crash = NoCrash
            /\ attempt' = [attempt EXCEPT !["scanner"] = @ + 1]
            /\ UNCHANGED <<state, transitions, snapshots, appended, pc, phase>>
    /\ UNCHANGED <<invocations, invStart, callsStart, entry, retryVars, synthVars>>

\* branches listening to the start node instead of the scanner
StartReturned == pc["start"] = "done"

\* @listen(run_scanner_stage)
ScannerReturned == pc["scanner"] = "done"

\* run_architecture_branch / run_security_branch / run_performance_branch up to
\* the call of the retry executor
run_branch(b, crash) ==
    /\ phase = "running"
    /\ ScannerReturned
    /\ pc[b] = "waiting"
    /\ IF _node_completed(state, b)
       THEN /\ crash = NoCrash
            /\ pc' = [pc EXCEPT ![b] = "done"]
            /\ UNCHANGED <<state, transitions, snapshots, appended, phase>>
       ELSE /\ _mark_node_transition(state, b, "running", crash)
            /\ Proceed(crash, [pc EXCEPT ![b] = "entered"], phase)
    /\ UNCHANGED <<calls, attempt, invocations, invStart, callsStart, faults, entry, retryVars, synthVars>>

\* one attempt of retry_executor.run(branch_executor.run_<b>) and, when it
\* settles the call, the rest of the branch method
branch_attempt(b, ok, crash) ==
    /\ phase = "running"
    /\ pc[b] = "entered"
    /\ calls' = [calls EXCEPT ![b] = @ + 1]
    /\ Outcome(ok)
    /\ IF ok
       THEN /\ _mark_node_transition(
                   [state EXCEPT !.branch_statuses[b] = "completed",
                                 !.outputs[b] = BranchOutput(b, calls'[b])],
                   b, "completed", crash)
            /\ Proceed(crash, [pc EXCEPT ![b] = "done"], phase)
            /\ UNCHANGED attempt
       ELSE IF LastAttempt(attempt[b] + 1, FlowMaxAttempts)
       THEN /\ LET redacted_error ==
                       WrappedError(StageName(b), FlowMaxAttempts, "branch raised")
               IN _mark_node_transition(
                      [state EXCEPT !.branch_statuses[b] = "failed",
                                    !.branch_failures[b] = redacted_error,
                                    !.outputs[b] = build_failed_output(b, redacted_error)],
                      b, "failed", crash)
            /\ Proceed(crash, [pc EXCEPT ![b] = "done"], phase)
            /\ attempt' = [attempt EXCEPT ![b] = @ + 1]
       ELSE /\ crash = NoCrash
            /\ attempt' = [attempt EXCEPT ![b] = @ + 1]
            /\ UNCHANGED <<state, transitions, snapshots, appended, pc, phase>>
    /\ UNCHANGED <<invocations, invStart, callsStart, entry, retryVars, synthVars>>

\* the output type a mistyped branch collaborator returns
OtherBranch(b) == IF b = "security" THEN "architecture" ELSE "security"

\* an attempt in which the injected branch executor returns the output object
\* of another branch: the branch method stores output.model_dump() unchecked
\* and marks the branch COMPLETED
branch_attempt_mistyped(b, crash) ==
    /\ phase = "running"
    /\ pc[b] = "entered"
    /\ calls' = [calls EXCEPT ![b] = @ + 1]
    /\ _mark_node_transition(
           [state EXCEPT !.branch_statuses[b] = "completed",
                         !.outputs[b] = BranchOutput(OtherBranch(b), calls'[b])],
           b, "completed", crash)
    /\ Proceed(crash, [pc EXCEPT ![b] = "done"], phase)
    /\ UNCHANGED <<attempt, faults, invocations, invStart, callsStart, entry, retryVars, synthVars>>

\* or_ in place of and_: the join fires on the first branch to return
AnyBranchReturned == \E b \in Branches : pc[b] = "done"

\* a join that never fires
AllBranchesReturned_Never == FALSE

\* and_(run_architecture_branch, run_security_branch, run_performance_branch)
AllBranchesReturned == \A b \in Branches : pc[b] = "done"

\* run_roadmap_trigger up to the synthesis; when it short-circuits the flow is
\* over and the runner returns flow.state
run_roadmap_trigger(crash) ==
    /\ phase = "running"
    /\ AllBranchesReturned
    /\ pc["roadmap"] = "waiting"
    /\ IF _node_completed(state, "roadmap")
       THEN /\ crash = NoCrash
            /\ pc' = [pc EXCEPT !["roadmap"] = "done"]
            /\ phase' = "returned"
            /\ UNCHANGED <<state, transitions, snapshots, appended>>
       ELSE /\ _mark_node_transition(state, "roadmap", "running", crash)
            /\ Proceed(crash, [pc EXCEPT !["roadmap"] = "entered"], phase)
    /\ UNCHANGED <<calls, attempt, invocations, invStart, callsStart, faults, entry, retryVars, synthVars>>

\* a roadmap that ignores the branch statuses
RoadmapStatus_AlwaysCompleted(branch_statuses) == "completed"

\* all(...) in place of any(...): degraded only when every branch failed
RoadmapStatus_AllFailed(branch_statuses) ==
    IF \A b \in Branches : branch_statuses[b] = "failed" THEN "degraded" ELSE "completed"

\* "degraded" if any(branch_statuses.get(branch) == "failed" ...) else "completed"
RoadmapStatus(branch_statuses) ==
    IF \E b \in Branches : branch_statuses[b] = "failed" THEN "degraded" ELSE "completed"

\* the try/except of run_roadmap_trigger; either way the method returns and
\* the runner returns flow.state
roadmap_synthesis(crash) ==
    /\ phase = "running"
    /\ pc["roadmap"] = "entered"
    /\ IF \A b \in Branches : ValidBranchPayload(state.outputs[b], b)
       THEN \E roadmap_items \in {synthesize_roadmap(state.outputs["architecture"],
                                                       state.outputs["security"],
                                                       state.outputs["performance"])},
               status \in {RoadmapStatus(state.branch_statuses)} :
               _mark_node_transition(
                   [state EXCEPT !.branch_statuses["roadmap"] = status,
                                 !.outputs["roadmap"] =
                                     [ kind |-> "roadmap",
                                       status |-> status,
                                       items |-> roadmap_items,
                                       branch_failures |-> state.branch_failures ]],
                   "roadmap", "completed", crash)
       ELSE LET redacted_error ==
                    [kind |-> "ValidationError", stage |-> "", attempts |-> 0, cause |-> ""]
                failures == [state.branch_failures EXCEPT !["roadmap"] = redacted_error]
            IN _mark_node_transition(
                   [state EXCEPT !.branch_statuses["roadmap"] = "failed",
                                 !.branch_failures = failures,
                                 !.outputs["roadmap"] =
                                     [ kind |-> "roadmap",
                                       status |-> "failed",
                                       items |-> <<>>,
                                       branch_failures |-> failures ]],
                   "roadmap", "failed", crash)
    /\ Proceed(crash, [pc EXCEPT !["roadmap"] = "done"], "returned")
    /\ UNCHANGED <<calls, attempt, invocations, invStart, callsStart, faults, entry, retryVars, synthVars>>

(***************************************************************************)
(* Specifications.                                                         *)
(***************************************************************************)
\* the stand-alone synthesis, not called
SynthIdle ==
    /\ synth_inputs = None
    /\ synth_items = <<>>
    /\ synth_pc = "idle"

\* the stand-alone executor, not yet called
RetryIdle ==
    /\ rpc = "idle"
    /\ attempt_no = 1
    /\ outcomes = <<>>
    /\ inflight = {}
    /\ slept = <<>>
    /\ result = None
    /\ last_error = None

InitWith(spent) ==
    /\ policy = [max_attempts |-> FlowMaxAttempts, backoff_seconds |-> 0,
                 jitter_seconds |-> 0]
    /\ timeout_seconds = <<>>
    /\ RetryIdle
    /\ SynthIdle
    /\ state = RepoClinicFlowState
    /\ transitions = <<>>
    /\ snapshots = <<>>
    /\ calls = [c \in Collaborators |-> 0]
    /\ pc = FreshPc
    /\ attempt = [c \in Collaborators |-> 0]
    /\ phase = "idle"
    /\ invocations = 0
    /\ invStart = 0
    /\ callsStart = [c \in Collaborators |-> 0]
    /\ faults = spent
    /\ appended = {}
    /\ entry = "none"

Init == InitWith(0)

Next ==
    \/ kickoff
    \/ resume
    \/ validate_request_and_state(NoCrash)
    \/ run_scanner_stage(NoCrash)
    \/ \E ok \in BOOLEAN : scanner_attempt(ok, NoCrash)
    \/ \E b \in Branches : run_branch(b, NoCrash)
    \/ \E b \in Branches, ok \in BOOLEAN : branch_attempt(b, ok, NoCrash)
    \/ run_roadmap_trigger(NoCrash)
    \/ roadmap_synthesis(NoCrash)

Spec == Init /\ [][Next]_vars

\* The flow when a started invocation keeps running: the framework runs every
\* method whose trigger fired, and every collaborator call returns or raises.
NodeStep ==
    \/ validate_request_and_state(NoCrash)
    \/ run_scanner_stage(NoCrash)
    \/ \E ok \in BOOLEAN : scanner_attempt(ok, NoCrash)
    \/ \E b \in Branches : run_branch(b, NoCrash)
    \/ \E b \in Branches, ok \in BOOLEAN : branch_attempt(b, ok, NoCrash)
    \/ run_roadmap_trigger(NoCrash)
    \/ roadmap_synthesis(NoCrash)

\* liveness is explored with a fault budget for one exhausted retry loop
InitLive == InitWith(MaxFaults - FlowMaxAttempts)

SpecLive == InitLive /\ [][Next]_vars /\ WF_vars(NodeStep)

\* The same flow when the process may die inside _mark_node_transition; the
\* next invocation then starts from the latest persisted snapshot.
Crashes == {NoCrash} \cup CrashPoints

NextCrash ==
    \/ kickoff
    \/ resume
    \/ \E crash \in Crashes : validate_request_and_state(crash)
    \/ \E crash \in Crashes : run_scanner_stage(crash)
    \/ \E ok \in BOOLEAN, crash \in Crashes : scanner_attempt(ok, crash)
    \/ \E b \in Branches, crash \in Crashes : run_branch(b, crash)
    \/ \E b \in Branches, ok \in BOOLEAN, crash \in Crashes : branch_attempt(b, ok, crash)
    \/ \E crash \in Crashes : run_roadmap_trigger(crash)
    \/ \E crash \in Crashes : roadmap_synthesis(crash)

\* crashes are explored with collaborators that do not raise: the fault
\* budget is spent from the start
InitCrash == InitWith(MaxFaults)

SpecCrash == InitCrash /\ [][NextCrash]_vars

\* The flow with branch collaborators that may return an output of the wrong
\* type; the collaborators do not raise.
NextMistyped ==
    \/ Next
    \/ \E b \in Branches : branch_attempt_mistyped(b, NoCrash)

SpecMistyped == InitCrash /\ [][NextMistyped]_vars

\* One call of synthesize_roadmap on its own.  The inputs are every triple of
\* branch outputs with at most one finding each (any severity, status and
\* confidence of the palettes, or the failure placeholder), and long triples
\* of MaxFindings findings per branch.
Severities == <<"Critical", "High", "Medium", "Low">>
FindingStatuses ==
    <<"confirmed", "suspected", "not_applicable", "insufficient_evidence", "failed">>
\* 4 and 5 differ by less than the spacing of the floats around 1 - 4/32
Confidences == <<4, 5, 28>>

Finding(branch, i, severity, status, confidence) ==
    [ id |-> <<branch, "finding", i>>,
      category |-> branch,
      severity |-> severity,
      status |-> status,
      confidence |-> confidence ]

AgentOutput(branch, findings) ==
    [ kind |-> "real", branch |-> branch, seq |-> 0, reason |-> NoError,
      findings |-> findings ]

ShortOutputs(branch) ==
    {AgentOutput(branch, <<>>),
     build_failed_output(branch,
                         WrappedError(StageName(branch), FlowMaxAttempts, "branch raised"))}
    \cup {AgentOutput(branch, <<Finding(branch, 1, Severities[s], FindingStatuses[t],
                                        Confidences[c])>>) :
              s \in 1..Len(Severities), t \in 1..Len(FindingStatuses),
              c \in 1..Len(Confidences)}

BranchOrd(branch) ==
    IF branch = "architecture" THEN 0 ELSE IF branch = "security" THEN 1 ELSE 2

\* seed 0: every finding actionable; seed 1: all but one; other seeds mix in
\* the other statuses
LongOutput(branch, seed) ==
    AgentOutput(branch,
        [i \in 1..MaxFindings |->
            Finding(branch, i,
                    Severities[((i + seed + BranchOrd(branch)) % Len(Severities)) + 1],
                    IF seed = 0 \/ (seed = 1 /\ ~(branch = "security" /\ i = 1))
                    THEN FindingStatuses[(i % 2) + 1]
                    ELSE FindingStatuses[((i * seed + BranchOrd(branch))
                                            % Len(FindingStatuses)) + 1],
                    Confidences[((i + BranchOrd(branch) * seed) % Len(Confidences)) + 1])])

SynthInputs(seeds) ==
    {[architecture |-> a, security |-> s, performance |-> p] :
        a \in ShortOutputs("architecture"), s \in ShortOutputs("security"),
        p \in ShortOutputs("performance")}
    \cup {[architecture |-> LongOutput("architecture", seed),
           security |-> LongOutput("security", seed),
           performance |-> LongOutput("performance", seed)] : seed \in seeds}

call_synthesize_roadmap ==
    /\ synth_pc = "idle"
    /\ synth_inputs # None
    /\ synth_items' = synthesize_roadmap(synth_inputs.architecture,
                                         synth_inputs.security,
                                         synth_inputs.performance)
    /\ synth_pc' = "done"
    /\ UNCHANGED <<synth_inputs, flowVars, retryVars>>

InitRoadmap ==
    /\ policy = [max_attempts |-> FlowMaxAttempts, backoff_seconds |-> 0,
                 jitter_seconds |-> 0]
    /\ timeout_seconds = <<>>
    /\ RetryIdle
    /\ synth_inputs \in SynthInputs(0..MaxSeed)
    /\ synth_items = <<>>
    /\ synth_pc = "idle"
    /\ state = RepoClinicFlowState
    /\ transitions = <<>>
    /\ snapshots = <<>>
    /\ calls = [c \in Collaborators |-> 0]
    /\ pc = FreshPc
    /\ attempt = [c \in Collaborators |-> 0]
    /\ phase = "idle"
    /\ invocations = 0
    /\ invStart = 0
    /\ callsStart = [c \in Collaborators |-> 0]
    /\ faults = 0
    /\ appended = {}
    /\ entry = "none"

NextRoadmap == call_synthesize_roadmap

SpecRoadmap == InitRoadmap /\ [][NextRoadmap]_vars

\* The transition store on its own: records of two run ids inserted in any
\* interleaving.
RunIds == {RunId, "run-2"}
StoreNodes == {"scanner", "roadmap"}
StoreFromStates == {"pending", "running"}
StoreToStates == {"running", "completed"}

NextStore ==
    \E run_id \in RunIds, node_id \in StoreNodes,
       from_state \in StoreFromStates, to_state \in StoreToStates :
        record_transition(run_id, node_id, from_state, to_state)

SpecStore == Init /\ [][NextStore]_vars

\* One call of RetryExecutor.run with any policy and timeout within the bounds.
InitRetry ==
    /\ policy \in [max_attempts : 0..MaxPolicyAttempts,
                   backoff_seconds : (0 - MaxBackoff)..MaxBackoff,
                   jitter_seconds : 0..MaxJitter]
    /\ timeout_seconds \in {<<>>, <<0>>, <<1>>}
    /\ RetryIdle
    /\ SynthIdle
    /\ state = RepoClinicFlowState
    /\ transitions = <<>>
    /\ snapshots = <<>>
    /\ calls = [c \in Collaborators |-> 0]
    /\ pc = FreshPc
    /\ attempt = [c \in Collaborators |-> 0]
    /\ phase = "idle"
    /\ invocations = 0
    /\ invStart = 0
    /\ callsStart = [c \in Collaborators |-> 0]
    /\ faults = 0
    /\ appended = {}
    /\ entry = "none"

NextRetry ==
    \/ run
    \/ \E behaviour \in Behaviours : _run_once(behaviour)
    \/ operation_done
    \/ future_timeout
    \/ executor_shutdown

SpecRetry == InitRetry /\ [][NextRetry]_vars

(***************************************************************************)
(* Properties.                                                             *)
(***************************************************************************)
Log == list_transitions(RunId)
IsRoadmapRunning(r) == r.node_id = "roadmap" /\ r.to_state = "running"
IsBranchTerminal(r) == r.node_id \in Branches /\ r.to_state \in {"completed", "failed"}
Ledger == SeqToSet(state.completed_nodes)
FullyCompleted == Methods \subseteq Ledger
\* the branches whose collaborator raised on every attempt of this invocation
Exhausted == {b \in Branches : attempt[b] = FlowMaxAttempts}
CallsThisInvocation(c) == calls[c] - callsStart[c]

\* C1 as stated: over the whole transition log of the run id, every roadmap
\* RUNNING record has a greater index than every architecture, security or
\* performance terminal (completed or failed) record.
C1_FanInWholeLog ==
    \A i, j \in 1..Len(Log) :
        IsRoadmapRunning(Log[i]) /\ IsBranchTerminal(Log[j]) => i > j

\* C1 amended: among the records one kickoff or resume invocation appends, the
\* roadmap RUNNING record has a greater index than every architecture, security
\* or performance terminal record, whichever branches fail and however the
\* branches interleave.
C1_FanInPerInvocation ==
    \A i, j \in (invStart + 1)..Len(Log) :
        IsRoadmapRunning(Log[i]) /\ IsBranchTerminal(Log[j]) => i > j

\* a first invocation in which roadmap started after three branch terminal
\* records, one of them failed
C1_Witness ==
    /\ invStart = 0
    /\ \E i \in 1..Len(Log) :
        /\ IsRoadmapRunning(Log[i])
        /\ \A b \in Branches : \E j \in 1..(i - 1) :
               IsBranchTerminal(Log[j]) /\ Log[j].node_id = b
        /\ \E j \in 1..(i - 1) : IsBranchTerminal(Log[j]) /\ Log[j].to_state = "failed"

\* C2: once every node is in completed_nodes, no later step (in particular no
\* step of a second kickoff or resume on a fresh flow instance) invokes the
\* scanner or a branch collaborator or changes one of the five stored outputs;
\* after a fault-free first invocation every call counter is 1 and stays 1.
C2_IdempotentReentry ==
    /\ [][FullyCompleted => (calls' = calls /\ state'.outputs = state.outputs)]_vars
    /\ [](FullyCompleted /\ faults = 0 => \A c \in Collaborators : calls[c] = 1)

\* a second invocation has returned after a fully completed first one, having
\* recorded nothing and called nothing
C2_Witness ==
    /\ invocations = 2
    /\ phase = "returned"
    /\ invStart > 0
    /\ FullyCompleted
    /\ \A c \in Collaborators : calls[c] = 1 /\ CallsThisInvocation(c) = 0
    /\ \A n \in StatusNodes : state.outputs[n] # None

\* C3: once a node id has been appended to completed_nodes for the run, no later
\* step invokes that node's collaborator, also after a crash inside
\* _mark_node_transition and a resume from the latest persisted snapshot.
C3_NoReexecutionAfterAppend ==
    [][\A c \in Collaborators : c \in appended => calls'[c] = calls[c]]_vars

\* C4: when the invocation is over and a non-empty set F of branch collaborators
\* raised on every attempt, the invocation returned (did not raise), roadmap is
\* degraded with a stored output, every b in F is failed with a branch_failures
\* entry, and every other branch is completed with its collaborator's own output;
\* in a first run the roadmap node ran (RUNNING then COMPLETED recorded).
C4_PartialFailureDegrades ==
    (phase \in {"returned", "raised"} /\ Exhausted # {}) =>
        /\ phase = "returned"
        /\ state.branch_statuses["roadmap"] = "degraded"
        /\ state.outputs["roadmap"] # None
        /\ state.outputs["roadmap"].status = "degraded"
        /\ \A b \in Exhausted :
              /\ state.branch_statuses[b] = "failed"
              /\ state.branch_failures[b] # NoError
        /\ \A b \in Branches \ Exhausted :
              /\ state.branch_statuses[b] = "completed"
              /\ state.outputs[b].kind = "real"
              /\ state.outputs[b].branch = b
        /\ invStart = 0 =>
              /\ \E i \in 1..Len(Log) : IsRoadmapRunning(Log[i])
              /\ Log[Len(Log)].node_id = "roadmap"
              /\ Log[Len(Log)].to_state = "completed"

\* a first run returned with exactly security and performance exhausted
C4_Witness ==
    /\ phase = "returned"
    /\ invStart = 0
    /\ Exhausted = {"security", "performance"}
    /\ state.outputs["architecture"].kind = "real"

\* C5: when the scanner collaborator has raised on every attempt of the
\* invocation, it was invoked exactly max_attempts times, the invocation raised,
\* scanner is failed with the wrapped error in branch_failures, the last record
\* is scanner FAILED, no branch collaborator was ever invoked, no record of a
\* branch or roadmap exists, and their statuses are pending.
C5_ScannerFailureAborts ==
    attempt["scanner"] = FlowMaxAttempts =>
        /\ phase = "raised"
        /\ CallsThisInvocation("scanner") = FlowMaxAttempts
        /\ state.branch_statuses["scanner"] = "failed"
        /\ state.branch_failures["scanner"].kind = "RuntimeError"
        /\ state.branch_failures["scanner"].attempts = FlowMaxAttempts
        /\ Log[Len(Log)].node_id = "scanner"
        /\ Log[Len(Log)].to_state = "failed"
        /\ \A b \in Branches : calls[b] = 0 /\ pc[b] = "waiting"
        /\ pc["roadmap"] = "waiting"
        /\ \A i \in 1..Len(Log) : Log[i].node_id \in {"start", "scanner"}
        /\ \A n \in Branches \cup {"roadmap"} : state.branch_statuses[n] = "pending"

\* the scanner was exhausted and the invocation raised
C5_Witness ==
    /\ phase = "raised"
    /\ attempt["scanner"] = FlowMaxAttempts
    /\ state.branch_statuses["scanner"] = "failed"

NoDuplicates(s) == \A i, j \in 1..Len(s) : s[i] = s[j] => i = j

\* C10: completed_nodes never holds an id twice, and every step (node steps,
\* kickoff and resume on a fresh instance included) leaves it unchanged or
\* appends exactly one id at its end.
C10_LedgerAppendOnly ==
    /\ [](NoDuplicates(state.completed_nodes))
    /\ [][\/ state'.completed_nodes = state.completed_nodes
          \/ \E n \in Methods :
                state'.completed_nodes = Append(state.completed_nodes, n)]_vars

\* a resumed run holds all six ids, a branch having completed only on resume
C10_Witness ==
    /\ invocations = 2
    /\ FullyCompleted
    /\ \E b \in Branches : CallsThisInvocation(b) > 0

(***************************************************************************)
(* Properties of RetryExecutor.run (SpecRetry).                            *)
(***************************************************************************)
TimeoutIsSet == timeout_seconds # <<>>
\* attempt i ran longer than the timeout that is set
TimedOut(i) == TimeoutIsSet /\ outcomes[i] \in {"slow_ok", "slow_raise"}
\* attempt i returned a value to run
Succeeded(i) == outcomes[i] \in {"ok", "slow_ok"} /\ ~TimedOut(i)
\* the error attempt i ended with
AttemptError(i) == IF TimedOut(i) THEN TimeoutError(i) ELSE OperationError(i)
RunOver == rpc \in {"returned", "raised"}
\* attempt i is behind run
Over(i) == i < attempt_no \/ RunOver
\* the delays _backoff_delay may produce after failed attempt k
Delays(k) == { Max0(policy.backoff_seconds * Pow2(k - 1) + j) : j \in 0..policy.jitter_seconds }

\* C6: with max_attempts < 1 the operation is never called and run raises the
\* configuration error; otherwise the operation is called at most max_attempts
\* times, run returns the value of the first attempt k that succeeds after
\* exactly k calls, and when none of max_attempts attempts succeeds it raises,
\* after exactly max_attempts calls, one wrapped error with the stage name,
\* max_attempts and the last attempt's error.
C6_AttemptBudget ==
    /\ policy.max_attempts < 1 =>
          /\ outcomes = <<>>
          /\ RunOver => rpc = "raised" /\ result = ConfigError
    /\ policy.max_attempts >= 1 => Len(outcomes) <= policy.max_attempts
    /\ \A i \in 1..(Len(outcomes) - 1) : ~Succeeded(i)
    /\ rpc = "returned" =>
          /\ Succeeded(Len(outcomes))
          /\ result = Value(Len(outcomes))
    /\ rpc = "raised" /\ policy.max_attempts >= 1 =>
          /\ Len(outcomes) = policy.max_attempts
          /\ ~Succeeded(Len(outcomes))
          /\ result = WrappedError(RetryStage, policy.max_attempts,
                                   AttemptError(policy.max_attempts))

\* three attempts failed and run raised the wrapped error of the third
C6_Witness ==
    /\ policy.max_attempts = 3
    /\ rpc = "raised"
    /\ Len(outcomes) = 3
    /\ result.kind = "RuntimeError"
    /\ result.cause = OperationError(3)

\* C7: run sleeps once between consecutive attempts and not after the last (n
\* attempts, n - 1 sleeps); the k-th sleep is max(0, backoff * 2^(k-1) + jitter)
\* with jitter in [0, jitter_seconds]; with max_attempts 3, backoff 0.1, jitter 0
\* and an operation failing twice then succeeding, the sleeps are [0.1, 0.2] and
\* the third attempt's value is returned (delays in tenths of a second).
C7_BackoffSchedule ==
    /\ Len(slept) = attempt_no - 1
    /\ RunOver /\ outcomes # <<>> => Len(slept) = Len(outcomes) - 1
    /\ \A k \in 1..Len(slept) : slept[k] \in Delays(k)
    /\ ( /\ policy = [max_attempts |-> 3, backoff_seconds |-> 1, jitter_seconds |-> 0]
         /\ outcomes = <<"raise", "raise", "ok">>
         /\ RunOver )
       => slept = <<1, 2>> /\ result = Value(3)

\* the run of test_retry_executor_retries_then_succeeds
C7_Witness ==
    /\ policy = [max_attempts |-> 3, backoff_seconds |-> 1, jitter_seconds |-> 0]
    /\ outcomes = <<"raise", "raise", "ok">>
    /\ rpc = "returned"
    /\ slept = <<1, 2>>

\* C8: with a timeout set (0 included), an attempt that outlasts it is a failed
\* attempt: its value is never returned, it counts toward max_attempts, it is
\* followed by the scheduled sleep and the next attempt when attempts remain, and
\* when it is the last one run raises the wrapped RuntimeError whose cause is the
\* timeout, not the timeout itself.
C8_TimeoutIsFailedAttempt ==
    \A i \in 1..Len(outcomes) :
        (timeout_seconds # <<>> /\ outcomes[i] \in {"slow_ok", "slow_raise"} /\ Over(i)) =>
            /\ i <= policy.max_attempts
            /\ rpc = "returned" => result # Value(i)
            /\ i < policy.max_attempts =>
                  /\ Len(slept) >= i
                  /\ slept[i] \in Delays(i)
                  /\ attempt_no > i
            /\ i = policy.max_attempts =>
                  /\ rpc = "raised"
                  /\ result.kind = "RuntimeError"
                  /\ result = WrappedError(RetryStage, policy.max_attempts, TimeoutError(i))

\* with timeout 0 every one of two attempts timed out and run raised the wrapper
C8_Witness ==
    /\ timeout_seconds = <<0>>
    /\ policy.max_attempts = 2
    /\ outcomes = <<"slow_ok", "slow_raise">>
    /\ rpc = "raised"
    /\ result.kind = "RuntimeError"
    /\ Len(slept) = 1

\* C9: run is never waiting for an operation whose timeout has expired: once an
\* attempt has timed out, run goes on (sleep and next attempt, or the final
\* error) whether or not that operation ever finishes.
C9_TimedOutAttemptAbandoned ==
    ~(rpc = "joining" /\ attempt_no \in inflight)

(***************************************************************************)
(* Properties of the Flow State fields (Spec).                             *)
(***************************************************************************)
TerminalStatuses == {"completed", "failed", "degraded"}
FailedBranches == {b \in Branches : state.branch_statuses[b] = "failed"}

\* C11: an output field (scanner_output, architecture_output, security_output,
\* performance_output, roadmap_output) that is non-empty never changes in a
\* later step, whatever kickoff and resume invocations follow.
C11_WriteOnceOutputs ==
    [][\A n \in StatusNodes :
          state.outputs[n] # None => state'.outputs[n] = state.outputs[n]]_vars

\* C12: a node has an entry in branch_failures only if its status in
\* branch_statuses is failed.
C12_FailuresMatchFailedStatus ==
    \A n \in StatusNodes :
        state.branch_failures[n] # NoError => state.branch_statuses[n] = "failed"

\* C13: the step in which the roadmap synthesis succeeds sets
\* branch_statuses[roadmap] and roadmap_output.status to degraded if a branch
\* status is failed at that moment, and to completed otherwise.
C13_RoadmapStatusRule ==
    [][(pc["roadmap"] = "entered" /\ pc'["roadmap"] = "done" /\ state'.state = "completed") =>
          LET expected == IF FailedBranches # {} THEN "degraded" ELSE "completed"
          IN /\ state'.branch_statuses["roadmap"] = expected
             /\ state'.outputs["roadmap"].status = expected]_vars

\* the synthesis succeeded with two branches failed and one completed
C13_Witness ==
    /\ pc["roadmap"] = "done"
    /\ state.state = "completed"
    /\ state.node_id = "roadmap"
    /\ Cardinality(FailedBranches) = 2
    /\ state.branch_statuses["roadmap"] = "degraded"
    /\ state.outputs["roadmap"].status = "degraded"

\* C14: when kickoff or resume has returned the Flow State, the status of each
\* of scanner, architecture, security, performance and roadmap is completed,
\* failed or degraded.
C14_TerminalStatusReporting ==
    phase = "returned" => \A n \in StatusNodes : state.branch_statuses[n] \in TerminalStatuses

\* a resume returned with a failed branch next to completed ones
C14_Witness ==
    /\ phase = "returned"
    /\ entry = "resume"
    /\ \E b \in Branches : state.branch_statuses[b] = "failed"
    /\ \E b \in Branches : state.branch_statuses[b] = "completed"
    /\ state.branch_statuses["scanner"] = "completed"

(***************************************************************************)
(* Properties of checkpointing and of the transition store.                *)
(***************************************************************************)
\* this step appended one record of node n entering to_state to the log and
\* saved one snapshot of the resulting Flow State under (run identity, n)
Recorded(n, to_state) ==
    /\ Len(transitions') = Len(transitions) + 1
    /\ SubSeq(transitions', 1, Len(transitions)) = transitions
    /\ transitions'[Len(transitions')].run_id = RunId
    /\ transitions'[Len(transitions')].node_id = n
    /\ transitions'[Len(transitions')].to_state = to_state
    /\ snapshots' = Append(snapshots, [ flow_uuid |-> RunId, method_name |-> n,
                                        state_data |-> state' ])

\* C15: each entry of an executing node into RUNNING and into COMPLETED or
\* FAILED appends exactly one record to the run's transition log and saves one
\* snapshot keyed by (run identity, node id) equal to the in-memory Flow State;
\* records and snapshots are written by nothing else.  (The start node goes
\* from pending to COMPLETED: it has no entry into RUNNING.)
C15_CheckpointOnEveryTransition ==
    [][/\ \A n \in Methods :
            /\ (pc[n] = "waiting" /\ pc'[n] = "entered") =>
                   state'.state = "running" /\ Recorded(n, "running")
            /\ (pc[n] = "entered" /\ (pc'[n] = "done" \/ phase' = "raised")) =>
                   state'.state \in {"completed", "failed"} /\ Recorded(n, state'.state)
       /\ (pc["start"] = "waiting" /\ pc'["start"] = "done" /\ "start" \notin Ledger) =>
              Recorded("start", "completed")
       /\ Len(transitions') - Len(transitions) \in {0, 1}
       /\ Len(snapshots') - Len(snapshots) = Len(transitions') - Len(transitions)
       /\ transitions' # transitions =>
              \E n \in Methods : Recorded(n, state'.state) /\ state'.node_id = n]_vars

\* a branch has entered RUNNING and FAILED, each with its record and snapshot
C15_Witness ==
    /\ Len(transitions) >= 2
    /\ Len(snapshots) = Len(transitions)
    /\ transitions[Len(transitions)].to_state = "failed"
    /\ transitions[Len(transitions)].node_id \in Branches
    /\ snapshots[Len(snapshots)].method_name = transitions[Len(transitions)].node_id
    /\ snapshots[Len(snapshots)].state_data = state
    /\ \E i \in 1..Len(transitions) :
           /\ transitions[i].node_id = transitions[Len(transitions)].node_id
           /\ transitions[i].to_state = "running"
           /\ snapshots[i].state_data.state = "running"

\* C16: list_transitions(r) holds only records of run id r; inserting a record
\* with run id r appends it to the end of list_transitions(r) and leaves the
\* records already listed as they are; inserting a record of another run id
\* leaves list_transitions(r) unchanged.
C16_AppendOnlyTransitionLog ==
    /\ [](\A r \in RunIds : \A i \in 1..Len(list_transitions(r)) :
              list_transitions(r)[i].run_id = r)
    /\ [][\A r \in RunIds :
            IF /\ Len(transitions') = Len(transitions) + 1
               /\ transitions'[Len(transitions')].run_id = r
            THEN list_transitions(r)' =
                     Append(list_transitions(r), transitions'[Len(transitions')])
            ELSE list_transitions(r)' = list_transitions(r)]_vars

\* two records of run-1 with a record of run-2 inserted between them
C16_Witness ==
    /\ Len(transitions) = 3
    /\ transitions[1].run_id = RunId
    /\ transitions[2].run_id = "run-2"
    /\ transitions[3].run_id = RunId
    /\ transitions[1] # transitions[3]
    /\ list_transitions(RunId) = <<transitions[1], transitions[3]>>
    /\ list_transitions("run-2") = <<transitions[2]>>

(***************************************************************************)
(* Properties of the node order and of the entry points (Spec).            *)
(***************************************************************************)
IsScannerCompleted(r) == r.node_id = "scanner" /\ r.to_state = "completed"
IsRunningOf(r, n) == r.node_id = n /\ r.to_state = "running"

\* C17: a branch method has left its waiting position in an invocation only if
\* scanner is in completed_nodes; every record of a branch in the log comes
\* after a scanner COMPLETED record; and a branch collaborator has been invoked
\* only if a scanner COMPLETED record exists.
C17_ScannerPrecedesBranches ==
    /\ \A b \in Branches : (phase = "running" /\ pc[b] # "waiting") => "scanner" \in Ledger
    /\ \A j \in 1..Len(Log) :
           Log[j].node_id \in Branches =>
               \E i \in 1..(j - 1) : IsScannerCompleted(Log[i])
    /\ \A b \in Branches :
           calls[b] > 0 => \E i \in 1..Len(Log) : IsScannerCompleted(Log[i])

\* after scanner COMPLETED the branches entered RUNNING in the order
\* performance, security, architecture: the reverse of their declaration
C17_Witness ==
    \E i, j, k, l \in 1..Len(Log) :
        /\ i < j /\ j < k /\ k < l
        /\ IsScannerCompleted(Log[i])
        /\ IsRunningOf(Log[j], "performance")
        /\ IsRunningOf(Log[k], "security")
        /\ IsRunningOf(Log[l], "architecture")

\* C18: when the start node runs with an empty request_payload and start is not
\* in completed_nodes, its step raises and changes neither the Flow State
\* (completed_nodes and statuses included) nor the transition log nor the
\* snapshots, and invokes nothing; after it no node of the invocation has run.
C18_MissingPayloadFatal ==
    /\ [][(/\ phase = "running"
           /\ pc["start"] = "waiting"
           /\ ~state.request_payload
           /\ "start" \notin Ledger) =>
              /\ phase' = "raised"
              /\ state' = state
              /\ transitions' = transitions
              /\ snapshots' = snapshots
              /\ calls' = calls
              /\ attempt' = attempt
              /\ pc' = pc]_vars
    /\ []((phase = "raised" /\ pc["start"] = "waiting") =>
              \A m \in Methods : pc[m] = "waiting")

\* the start node raised on an empty payload in the first invocation
C18_Witness ==
    /\ phase = "raised"
    /\ invocations = 1
    /\ pc["start"] = "waiting"
    /\ ~state.request_payload
    /\ state.completed_nodes = <<>>
    /\ transitions = <<>>
    /\ snapshots = <<>>

\* C19: a resume for a run id without a persisted snapshot raises, and until it
\* does no collaborator is invoked, no transition of the run id is recorded and
\* no node beyond the start check runs.
C19_ResumeNeedsCheckpoint ==
    /\ []((entry = "resume" /\ ~HasSnapshot(RunId)) =>
              /\ phase \in {"running", "raised"}
              /\ calls = callsStart
              /\ Len(Log) = invStart
              /\ \A m \in Methods : pc[m] = "waiting")
    /\ [][(entry = "resume" /\ ~HasSnapshot(RunId) /\ phase = "running") =>
              phase' = "raised"]_vars

\* a second resume without a snapshot has raised as the first one did
C19_Witness ==
    /\ entry = "resume"
    /\ invocations = 2
    /\ ~HasSnapshot(RunId)
    /\ phase = "raised"
    /\ \A c \in Collaborators : calls[c] = 0
    /\ Log = <<>>

\* a step of branch b's method
BranchStep(b) == phase = "running" /\ (pc'[b] # pc[b] \/ calls'[b] # calls[b])

\* C20: a step of a branch writes only the Flow State fields owned by its own
\* node id (its status, its failure entry, its output), so no field is written
\* by two branches.
C20_PartitionedWrites ==
    [][\A b \in Branches : BranchStep(b) =>
          /\ state'.node_id = state.node_id
          /\ state'.state = state.state
          /\ state'.checkpoint_id = state.checkpoint_id
          /\ state'.resume_token = state.resume_token
          /\ state'.completed_nodes = state.completed_nodes
          /\ \A n \in StatusNodes \ {b} :
                 /\ state'.branch_statuses[n] = state.branch_statuses[n]
                 /\ state'.branch_failures[n] = state.branch_failures[n]
                 /\ state'.outputs[n] = state.outputs[n]]_vars

(***************************************************************************)
(* Properties of the transition records (Spec).                            *)
(***************************************************************************)
\* the lifecycle state the node of record i was in before that record: the
\* to_state of its latest earlier record, pending when it has none
OwnPreviousState(i) ==
    LET earlier == {j \in 1..(i - 1) : Log[j].node_id = Log[i].node_id}
    IN IF earlier = {} THEN "pending"
       ELSE Log[CHOOSE j \in earlier : \A k \in earlier : k <= j].to_state

\* C21: every transition record has as from_state the lifecycle state its own
\* node was in immediately before: pending for a node's first record, running
\* for the COMPLETED or FAILED record that follows its RUNNING record.
C21_FromStateOwnPrevious ==
    \A i \in 1..Len(Log) : Log[i].from_state = OwnPreviousState(i)

\* C28: within one call of RetryExecutor.run at most one call of the operation
\* is executing at any time, and it is the current attempt's; when the next
\* attempt is about to start, and when run is over, none is executing, also
\* after an attempt that timed out.
C28_NoOverlappingAttempts ==
    /\ Cardinality(inflight) <= 1
    /\ inflight \subseteq {attempt_no}
    /\ rpc \in {"idle", "attempting", "returned", "raised"} => inflight = {}

\* after a first attempt that timed out, the second attempt alone is executing
C28_Witness ==
    /\ timeout_seconds # <<>>
    /\ attempt_no = 2
    /\ outcomes[1] \in {"slow_ok", "slow_raise"}
    /\ rpc = "waiting"
    /\ inflight = {2}

(***************************************************************************)
(* Properties across invocations (Spec).                                   *)
(***************************************************************************)
\* C26: in the Flow State kickoff or resume returns, the roadmap status is
\* degraded exactly when a branch status is failed, and
\* roadmap_output.branch_failures equals the state's branch_failures.
C26_DegradedConsistentAcrossResume ==
    phase = "returned" =>
        /\ (state.branch_statuses["roadmap"] = "degraded") <=> (FailedBranches # {})
        /\ state.outputs["roadmap"].branch_failures = state.branch_failures

\* C27: every node of scanner, architecture, security, performance, roadmap
\* that is in completed_nodes has a stored output and the status completed
\* (roadmap: completed or degraded); and once the roadmap method has entered
\* RUNNING in an invocation, all three branch outputs are stored.
C27_LedgerImpliesStoredOutput ==
    /\ \A n \in StatusNodes :
           n \in Ledger =>
               /\ state.outputs[n] # None
               /\ state.branch_statuses[n] \in
                      (IF n = "roadmap" THEN {"completed", "degraded"} ELSE {"completed"})
    /\ (phase = "running" /\ pc["roadmap"] \in {"entered", "done"}) =>
           \A b \in Branches : state.outputs[b] # None

\* a resume of a degraded run has returned with all five nodes in the ledger,
\* the roadmap node having short-circuited
C27_Witness ==
    /\ entry = "resume"
    /\ phase = "returned"
    /\ StatusNodes \subseteq Ledger
    /\ state.branch_statuses["roadmap"] = "degraded"
    /\ state.outputs["roadmap"] # None

\* completed_nodes of the snapshot the current invocation started from
StartLedger ==
    IF invStart = 0 THEN {}
    ELSE SeqToSet(snapshots[invStart].state_data.completed_nodes)
\* node c recorded FAILED in the current invocation
FailedThisInvocation(c) ==
    \E i \in (invStart + 1)..Len(Log) : Log[i].node_id = c /\ Log[i].to_state = "failed"
ResumedFromSnapshot == entry = "resume" /\ invStart > 0

\* C25 as stated: when a resume from a snapshot is over, a collaborator was
\* invoked in it if and only if its node is not in the snapshot's
\* completed_nodes.
C25_ResumeReexecutesUnfinished ==
    (ResumedFromSnapshot /\ phase \in {"returned", "raised"}) =>
        \A c \in Collaborators : CallsThisInvocation(c) > 0 <=> c \notin StartLedger

\* C25 amended: in a resume from a snapshot a collaborator is invoked only if
\* its node is not in the snapshot's completed_nodes; when the resume returns,
\* every node not in them was re-executed; when it raises, the scanner was
\* re-executed and failed again and no branch was invoked; a re-executed node
\* has a fresh attempt budget (max_attempts calls when it fails again); and a
\* node whose status is failed is not in completed_nodes.
C25_ResumeReexecutesReached ==
    /\ ResumedFromSnapshot =>
        /\ \A c \in Collaborators : CallsThisInvocation(c) > 0 => c \notin StartLedger
        /\ phase = "returned" =>
               \A c \in Collaborators : c \notin StartLedger => CallsThisInvocation(c) > 0
        /\ phase = "raised" =>
               /\ "scanner" \notin StartLedger
               /\ CallsThisInvocation("scanner") = FlowMaxAttempts
               /\ \A b \in Branches : CallsThisInvocation(b) = 0
        /\ \A c \in Collaborators :
               /\ CallsThisInvocation(c) <= FlowMaxAttempts
               /\ FailedThisInvocation(c) => CallsThisInvocation(c) = FlowMaxAttempts
    /\ \A c \in Collaborators : state.branch_statuses[c] = "failed" => c \notin Ledger

\* a resume returned in which a failed branch used a full budget and failed
\* again, while a node of the snapshot's completed_nodes was not invoked
C25_Witness ==
    /\ ResumedFromSnapshot
    /\ phase = "returned"
    /\ \E b \in Branches :
           /\ b \notin StartLedger
           /\ FailedThisInvocation(b)
           /\ CallsThisInvocation(b) = FlowMaxAttempts
    /\ \E b \in Branches : b \in StartLedger /\ CallsThisInvocation(b) = 0
    /\ CallsThisInvocation("scanner") = 0

\* the items the collaborators' findings must yield whatever the schedule:
\* the security finding (High) first, then the architecture and the
\* performance finding (both Medium with the same confidence) in input order;
\* a failure placeholder yields no item
ExpectedItems(outputs) ==
    LET item(b) == IF outputs[b].kind = "real"
                   THEN <<RoadmapItem(outputs[b].findings[1])>> ELSE <<>>
    IN item("security") \o item("architecture") \o item("performance")

\* index of the last terminal record of branch b in the log (0 when none)
FinishedAt(b) ==
    LET at == {i \in 1..Len(Log) : Log[i].node_id = b /\ IsBranchTerminal(Log[i])}
    IN IF at = {} THEN 0 ELSE CHOOSE i \in at : \A j \in at : j <= i

\* C29: the items the roadmap node stores are a function of the three branch
\* outputs alone: whatever order the branches started and finished in, the
\* security item comes first and the architecture and performance items, equal
\* in severity and confidence, follow in that order.
C29_RoadmapIndependentOfScheduling ==
    [][ ( /\ pc["roadmap"] = "entered"
          /\ pc'["roadmap"] = "done"
          /\ state'.branch_statuses["roadmap"] # "failed" )
        => state'.outputs["roadmap"].items = ExpectedItems(state.outputs) ]_vars

\* the roadmap was synthesised after performance finished before security and
\* security before architecture, and lists security, architecture, performance
C29_Witness ==
    /\ pc["roadmap"] = "done"
    /\ invocations = 1
    /\ FinishedAt("performance") > 0
    /\ FinishedAt("performance") < FinishedAt("security")
    /\ FinishedAt("security") < FinishedAt("architecture")
    /\ Len(state.outputs["roadmap"].items) = 3
    /\ state.outputs["roadmap"].items[1].depends_on[1][1] = "security"
    /\ state.outputs["roadmap"].items[2].depends_on[1][1] = "architecture"
    /\ state.outputs["roadmap"].items[3].depends_on[1][1] = "performance"

\* a stored branch payload whose findings are not of the branch's category
Mistyped(st, b) ==
    /\ st.outputs[b] # None
    /\ \E i \in 1..Len(st.outputs[b].findings) : st.outputs[b].findings[i].category # b

\* C22: when a stored branch output does not deserialize, the roadmap node's
\* step does not raise: the runner returns the state, in which
\* branch_statuses[roadmap] is failed, branch_failures[roadmap] holds the
\* error, the roadmap output has status failed and no items, and a FAILED
\* transition of roadmap is the newest record.
C22_RoadmapFailureIsTerminal ==
    [][ ( /\ pc["roadmap"] = "entered"
          /\ \E b \in Branches : Mistyped(state, b) )
        => /\ pc'["roadmap"] = "done"
           /\ phase' = "returned"
           /\ state'.branch_statuses["roadmap"] = "failed"
           /\ state'.branch_failures["roadmap"] # NoError
           /\ state'.outputs["roadmap"].status = "failed"
           /\ state'.outputs["roadmap"].items = <<>>
           /\ state'.outputs["roadmap"].branch_failures = state'.branch_failures
           /\ Len(transitions') = Len(transitions) + 1
           /\ transitions'[Len(transitions')].node_id = "roadmap"
           /\ transitions'[Len(transitions')].to_state = "failed"
           /\ "roadmap" \notin SeqToSet(state'.completed_nodes) ]_vars

\* the runner returned a state whose roadmap failed on a mistyped branch output
C22_Witness ==
    /\ phase = "returned"
    /\ \E b \in Branches : Mistyped(state, b)
    /\ state.branch_statuses["roadmap"] = "failed"
    /\ state.outputs["roadmap"].items = <<>>
    /\ Log[Len(Log)].node_id = "roadmap"
    /\ Log[Len(Log)].to_state = "failed"

\* the findings passed to the stand-alone call, in input order
SynthFindings ==
    synth_inputs.architecture.findings \o synth_inputs.security.findings
      \o synth_inputs.performance.findings

IsActionable(f) == f.status \in {"confirmed", "suspected"}

\* positions in the input of the findings with the id of item i
SourcesOf(i) ==
    {p \in 1..Len(SynthFindings) : SynthFindings[p].id = synth_items[i].depends_on[1]}

SourceOf(i) == CHOOSE p \in SourcesOf(i) : TRUE

Kept == {SourceOf(i) : i \in 1..Len(synth_items)}

QualifyingCount ==
    Cardinality({p \in 1..Len(SynthFindings) : IsActionable(SynthFindings[p])})

\* C23: the call returns at most 10 items; each item is derived from one
\* input finding of status confirmed or suspected and no two items from the
\* same finding; a finding of any other status (the failure placeholder's
\* included) yields no item; every qualifying finding yields an item unless
\* more than 10 qualify, and then the 10 kept are the first of the sorted
\* order: no dropped finding sorts before a kept one.
C23_RoadmapItemSelection ==
    synth_pc = "done" =>
        /\ Len(synth_items) <= RoadmapLimit
        /\ \A i \in 1..Len(synth_items) :
               /\ Cardinality(SourcesOf(i)) = 1
               /\ IsActionable(SynthFindings[SourceOf(i)])
               /\ synth_items[i] = RoadmapItem(SynthFindings[SourceOf(i)])
        /\ \A i, j \in 1..Len(synth_items) : i # j => SourceOf(i) # SourceOf(j)
        /\ Len(synth_items) =
               IF QualifyingCount < RoadmapLimit THEN QualifyingCount ELSE RoadmapLimit
        /\ \A p \in 1..Len(SynthFindings) :
               (IsActionable(SynthFindings[p]) /\ p \notin Kept) =>
                   \A q \in Kept :
                       /\ ~KeyLess(SynthFindings[p], SynthFindings[q])
                       /\ KeyLess(SynthFindings[q], SynthFindings[p]) \/ q < p

\* more than 10 findings qualified and 10 were kept, while findings of other
\* statuses were passed too
C23_Witness ==
    /\ synth_pc = "done"
    /\ QualifyingCount > RoadmapLimit
    /\ Len(synth_items) = RoadmapLimit
    /\ \E p \in 1..Len(SynthFindings) : ~IsActionable(SynthFindings[p])

\* C24: items are ordered by severity rank, within a severity by descending
\* confidence, and findings equal in both keep their input order
\* (architecture, then security, then performance findings).
C24_OrderedBySeverityThenConfidence ==
    synth_pc = "done" =>
        \A i, j \in 1..Len(synth_items) :
            i < j =>
                LET f == SynthFindings[SourceOf(i)]
                    g == SynthFindings[SourceOf(j)]
                IN \/ SEVERITY_ORDER(f.severity) < SEVERITY_ORDER(g.severity)
                   \/ /\ f.severity = g.severity
                      /\ f.confidence > g.confidence
                   \/ /\ f.severity = g.severity
                      /\ f.confidence = g.confidence
                      /\ SourceOf(i) < SourceOf(j)

\* records of the current invocation
ThisInvocation == (invStart + 1)..Len(Log)

RoadmapStarted == \E i \in ThisInvocation : Log[i].node_id = "roadmap"

IsRoadmapTerminal(r) == r.node_id = "roadmap" /\ r.to_state \in {"completed", "failed"}

\* how a kickoff may be over: the scanner's error raised with no branch and no
\* roadmap record of this invocation, or the state returned with roadmap in a
\* terminal status, recorded after a terminal record of every branch
KickoffOver ==
    /\ (phase = "raised" /\ entry = "kickoff") =>
           /\ state.branch_statuses["scanner"] = "failed"
           /\ ~RoadmapStarted
           /\ \A i \in ThisInvocation : Log[i].node_id \notin Branches
    /\ (phase = "returned" /\ entry = "kickoff") =>
           /\ state.branch_statuses["roadmap"] \in {"completed", "degraded", "failed"}
           /\ pc["roadmap"] = "done"
           /\ \A b \in Branches :
                  /\ state.branch_statuses[b] \in {"completed", "failed"}
                  /\ \E i, j \in 1..Len(Log) :
                         /\ i < j
                         /\ Log[i].node_id = b
                         /\ IsBranchTerminal(Log[i])
                         /\ IsRoadmapTerminal(Log[j])

\* C30: every started kickoff is eventually over, either raised with the
\* scanner failed and roadmap never started, or returned with roadmap in a
\* terminal status after all three branches became terminal; it never stays
\* with a branch terminal and roadmap pending.
C30_RunTerminates ==
    /\ []KickoffOver
    /\ (phase = "running" /\ entry = "kickoff") ~> (phase \in {"returned", "raised"})

\* a kickoff returned a degraded roadmap after a branch failed
C30_Witness ==
    /\ entry = "kickoff"
    /\ phase = "returned"
    /\ state.branch_statuses["roadmap"] = "degraded"
    /\ \A b \in Branches : \E i \in ThisInvocation : IsBranchTerminal(Log[i]) /\ Log[i].node_id = b

====
